---------------------------- MODULE Spec2Model ----------------------------
(***************************************************************************)
(* Student management system: the StudentManager (student_manager.py), its *)
(* validation rules, the keyword query agent (llm_query_agent.py) and the  *)
(* pickle file storage (student_storage.py).                               *)
(*                                                                         *)
(* Python str values whose characters the code inspects (sid, name, query  *)
(* text) are sequences of one-character strings; a character outside ASCII *)
(* is written "Uxxxx" (its code point).  gender and major, which the code  *)
(* only compares and tests for emptiness, are TLA+ strings.                *)
(***************************************************************************)
EXTENDS Integers, Sequences, FiniteSets, TLC

VARIABLES
    students,     \* StudentManager._students: the dict, in insertion order
    query_agent,  \* StudentManager._query_agent: which IQueryAgent was injected
    file,         \* the content of StudentStorage.data_file on disk
    call,         \* the public method called last, with its arguments
    ret           \* what that call returned or raised

vars == <<students, query_agent, file, call, ret>>

---------------------------------------------------------------------------
\* Python str operations

UpperChars == <<"A","B","C","D","E","F","G","H","I","J","K","L","M","N","O","P","Q","R","S","T","U","V","W","X","Y","Z">>

LowerChars == <<"a","b","c","d","e","f","g","h","i","j","k","l","m","n","o","p","q","r","s","t","u","v","w","x","y","z">>

DigitChars == <<"0","1","2","3","4","5","6","7","8","9">>

CjkChars == {"U4E0A", "U4E0B", "U4E8E", "U4EE5", "U4EF6", "U5173", "U5927", "U5973", "U5C0F", "U5C81", "U5DE5", "U6027", "U662F", "U673A", "U751F", "U7537", "U7A0B", "U7B97", "U878D", "U8BA1", "U8C01", "U8F6F", "U91D1"}

Range(seq) == {seq[i] : i \in 1..Len(seq)}

\* The lower case of each upper case letter
LowerOf ==
    [c \in Range(UpperChars) |->
        LowerChars[CHOOSE i \in 1..Len(UpperChars) : UpperChars[i] = c]]

\* str.lower() of one character
LowerChar(c) == IF c \in DOMAIN LowerOf THEN LowerOf[c] ELSE c

\* str.lower()
Lower(s) == [i \in 1..Len(s) |-> LowerChar(s[i])]

\* The letters and digits
AlnumChars ==
    Range(UpperChars) \cup Range(LowerChars) \cup Range(DigitChars) \cup CjkChars

\* str.isalnum(): non-empty and every character a letter or a digit
IsAlnum(s) ==
    /\ Len(s) > 0
    /\ \A i \in 1..Len(s) : s[i] \in AlnumChars

\* `part in s` for two str
Contains(s, part) ==
    \E i \in 0..(Len(s) - Len(part)) :
        \A j \in 1..Len(part) : s[i + j] = part[j]

\* code point order of the characters that occur in ids
OrdChars == <<"-">> \o DigitChars \o UpperChars \o LowerChars

Ord(c) == CHOOSE i \in 1..Len(OrdChars) : OrdChars[i] = c

\* s < t for two str (lexicographic by code point)
StrLess(s, t) ==
    \E i \in 1..(Len(s) + 1) :
        /\ \A j \in 1..(i - 1) : j <= Len(t) /\ s[j] = t[j]
        /\ IF i = Len(s) + 1 THEN Len(t) > Len(s)
           ELSE i <= Len(t) /\ Ord(s[i]) < Ord(t[i])

---------------------------------------------------------------------------
\* Python values, results and exceptions

PyNone == [type |-> "NoneType"]

PyBool(b) == [type |-> "bool", v |-> b]

PyInt(n) == [type |-> "int", v |-> n]

PyFloat(n) == [type |-> "float", v |-> n]

PyStudent(s) == [type |-> "Student", student |-> s]

PyList(items) == [type |-> "list", items |-> items]

PyDict(m) == [type |-> "dict", map |-> m]

\* a call that returns value
Return(value) == [exc |-> "None", msg |-> "", arg |-> <<>>, value |-> value]

\* a call that raises exc(msg), msg formatted with arg
Raise(exc, msg, arg) == [exc |-> exc, msg |-> msg, arg |-> arg, value |-> PyNone]

StudentAlreadyExistsError(sid) ==
    Raise("StudentAlreadyExistsError", "Student ID {sid} already exists.", sid)

StudentNotFoundError(sid) ==
    Raise("StudentNotFoundError", "No student found with ID {sid}.", sid)

StudentError(msg) == Raise("StudentError", msg, <<>>)

Student(sid, name, age, gender, major) ==
    [sid |-> sid, name |-> name, age |-> age, gender |-> gender, major |-> major]

---------------------------------------------------------------------------
\* dict[str, Student]: a sequence of entries [k, v] in insertion order

KeySeq(d) == [i \in 1..Len(d) |-> d[i].k]

Keys(d) == {d[i].k : i \in 1..Len(d)}

Values(d) == [i \in 1..Len(d) |-> d[i].v]

\* k in d
HasKey(d, k) == k \in Keys(d)

\* d[k], for k in d
Item(d, k) == d[CHOOSE i \in 1..Len(d) : d[i].k = k].v

\* d[k] = v: replaces in place, or appends
SetItem(d, k, v) ==
    IF HasKey(d, k)
    THEN [i \in 1..Len(d) |-> IF d[i].k = k THEN [k |-> k, v |-> v] ELSE d[i]]
    ELSE Append(d, [k |-> k, v |-> v])

\* del d[k]
DelItem(d, k) == SelectSeq(d, LAMBDA e : e.k # k)

\* sorted(d.keys())
RECURSIVE SortedSeq(_)
SortedSeq(S) ==
    IF S = {} THEN <<>>
    ELSE LET least == CHOOSE x \in S : \A y \in S \ {x} : StrLess(x, y)
         IN  <<least>> \o SortedSeq(S \ {least})

---------------------------------------------------------------------------
\* StudentManager (student_manager.py).  Each method is an operator from the
\* dict d (self._students) and the arguments to the result of the call and
\* the dict it leaves: [ret |-> ..., students |-> ...].

\* _validate_student_data with the age range test off by one at the lower end
_validate_student_data_AgeLowerExclusive(sid, name, age, gender, major) ==
    IF ~(sid # <<>> /\ IsAlnum(sid))
    THEN StudentError("ID must be non-empty alphanumeric.")
    ELSE IF ~(name # <<>> /\ Len(name) > 0)
    THEN StudentError("Name cannot be empty.")
    ELSE IF ~(age.type = "int" /\ 1 < age.v /\ age.v <= 150)
    THEN StudentError("Age must be an integer between 1-150.")
    ELSE IF gender \notin {"Male", "Female"}
    THEN StudentError("Gender must be 'Male' or 'Female'.")
    ELSE IF ~(major # "")
    THEN StudentError("Major cannot be empty.")
    ELSE Return(PyBool(TRUE))

\* _validate_student_data with the gender test moved before the name test
_validate_student_data_GenderFirst(sid, name, age, gender, major) ==
    IF ~(sid # <<>> /\ IsAlnum(sid))
    THEN StudentError("ID must be non-empty alphanumeric.")
    ELSE IF gender \notin {"Male", "Female"}
    THEN StudentError("Gender must be 'Male' or 'Female'.")
    ELSE IF ~(name # <<>> /\ Len(name) > 0)
    THEN StudentError("Name cannot be empty.")
    ELSE IF ~(age.type = "int" /\ 1 <= age.v /\ age.v <= 150)
    THEN StudentError("Age must be an integer between 1-150.")
    ELSE IF ~(major # "")
    THEN StudentError("Major cannot be empty.")
    ELSE Return(PyBool(TRUE))

_validate_student_data(sid, name, age, gender, major) ==
    IF ~(sid # <<>> /\ IsAlnum(sid))
    THEN StudentError("ID must be non-empty alphanumeric.")
    ELSE IF ~(name # <<>> /\ Len(name) > 0)
    THEN StudentError("Name cannot be empty.")
    ELSE IF ~(age.type = "int" /\ 1 <= age.v /\ age.v <= 150)
    THEN StudentError("Age must be an integer between 1-150.")
    ELSE IF gender \notin {"Male", "Female"}
    THEN StudentError("Gender must be 'Male' or 'Female'.")
    ELSE IF ~(major # "")
    THEN StudentError("Major cannot be empty.")
    ELSE Return(PyBool(TRUE))

\* add_student that validates before it looks for the id
add_student_ValidateFirst(d, student) ==
    LET valid == _validate_student_data(student.sid, student.name, student.age,
                                        student.gender, student.major)
    IN  IF valid.exc # "None"
        THEN [ret |-> valid, students |-> d]
        ELSE IF HasKey(d, student.sid)
        THEN [ret |-> StudentAlreadyExistsError(student.sid), students |-> d]
        ELSE [ret |-> Return(PyNone), students |-> SetItem(d, student.sid, student)]

add_student(d, student) ==
    IF HasKey(d, student.sid)
    THEN [ret |-> StudentAlreadyExistsError(student.sid), students |-> d]
    ELSE LET valid == _validate_student_data(student.sid, student.name, student.age,
                                             student.gender, student.major)
         IN  IF valid.exc # "None"
             THEN [ret |-> valid, students |-> d]
             ELSE [ret |-> Return(PyNone), students |-> SetItem(d, student.sid, student)]

\* self._students.get(sid); `not student` is false for every Student
query_student_by_id(d, sid) ==
    IF ~HasKey(d, sid)
    THEN StudentNotFoundError(sid)
    ELSE Return(PyStudent(Item(d, sid)))

query_students_by_name(d, name_part) ==
    Return(PyList(SelectSeq(Values(d),
                            LAMBDA s : Contains(Lower(s.name), Lower(name_part)))))

\* The keys of temp_data: the only keys of updates that modify_student reads
TempDataKeys == {"name", "age", "gender", "major"}

\* temp_data after the loop over updates.items()
TempData(student, updates) ==
    [key \in TempDataKeys |->
        IF key \in DOMAIN updates THEN updates[key] ELSE student[key]]

\* modify_student that assigns each field as soon as that field alone is fine
modify_student_FieldByField(d, sid, updates) ==
    LET found == query_student_by_id(d, sid)
    IN  IF found.exc # "None"
        THEN [ret |-> found, students |-> d]
        ELSE LET student == found.value.student
                 temp_data == TempData(student, updates)
                 valid == _validate_student_data(student.sid, temp_data["name"],
                              temp_data["age"], temp_data["gender"], temp_data["major"])
                 named == Student(student.sid,
                              IF temp_data["name"] # <<>> THEN temp_data["name"]
                              ELSE student.name,
                              student.age, student.gender, student.major)
             IN  IF valid.exc # "None"
                 THEN [ret |-> valid, students |-> SetItem(d, sid, named)]
                 ELSE [ret |-> Return(PyNone),
                       students |-> SetItem(d, sid,
                           Student(student.sid, temp_data["name"], temp_data["age"],
                                   temp_data["gender"], temp_data["major"]))]

\* modify_student that creates the record when the id is absent
modify_student_Upsert(d, sid, updates) ==
    LET blank == Student(sid, <<>>, PyInt(0), "", "")
        student == IF HasKey(d, sid) THEN Item(d, sid) ELSE blank
        temp_data == TempData(student, updates)
        valid == _validate_student_data(student.sid, temp_data["name"],
                     temp_data["age"], temp_data["gender"], temp_data["major"])
    IN  IF valid.exc # "None"
        THEN [ret |-> valid, students |-> d]
        ELSE [ret |-> Return(PyNone),
              students |-> SetItem(d, sid,
                  Student(student.sid, temp_data["name"], temp_data["age"],
                          temp_data["gender"], temp_data["major"]))]

\* modify_student that copies every key of updates onto the record, the id
\* included, and stores the record under the id it was asked for
modify_student_RenamesId(d, sid, updates) ==
    LET found == query_student_by_id(d, sid)
    IN  IF found.exc # "None"
        THEN [ret |-> found, students |-> d]
        ELSE LET student == found.value.student
                 temp_data == TempData(student, updates)
                 new_sid == IF "sid" \in DOMAIN updates THEN updates["sid"]
                            ELSE student.sid
                 valid == _validate_student_data(new_sid, temp_data["name"],
                              temp_data["age"], temp_data["gender"], temp_data["major"])
             IN  IF valid.exc # "None"
                 THEN [ret |-> valid, students |-> d]
                 ELSE [ret |-> Return(PyNone),
                       students |-> SetItem(d, sid,
                           Student(new_sid, temp_data["name"], temp_data["age"],
                                   temp_data["gender"], temp_data["major"]))]

modify_student(d, sid, updates) ==
    LET found == query_student_by_id(d, sid)
    IN  IF found.exc # "None"
        THEN [ret |-> found, students |-> d]
        ELSE LET student == found.value.student
                 temp_data == TempData(student, updates)
                 valid == _validate_student_data(student.sid, temp_data["name"],
                              temp_data["age"], temp_data["gender"], temp_data["major"])
             IN  IF valid.exc # "None"
                 THEN [ret |-> valid, students |-> d]
                 ELSE [ret |-> Return(PyNone),
                       students |-> SetItem(d, sid,
                           Student(student.sid, temp_data["name"], temp_data["age"],
                                   temp_data["gender"], temp_data["major"]))]

\* delete_student that drops the oldest entry instead of the one asked for
delete_student_First(d, sid) ==
    IF ~HasKey(d, sid)
    THEN [ret |-> StudentNotFoundError(sid), students |-> d]
    ELSE [ret |-> Return(PyNone), students |-> Tail(d)]

delete_student(d, sid) ==
    IF ~HasKey(d, sid)
    THEN [ret |-> StudentNotFoundError(sid), students |-> d]
    ELSE [ret |-> Return(PyNone), students |-> DelItem(d, sid)]

get_all_students(d) ==
    LET keys == SortedSeq(Keys(d))
    IN  Return(PyList([i \in 1..Len(keys) |-> Item(d, keys[i])]))

---------------------------------------------------------------------------
\* LLMQueryAgent (llm_query_agent.py): the keyword cues

AgeMinCues ==
    { <<"g","r","e","a","t","e","r"," ","t","h","a","n"," ","2","0">>,  \* greater than 20
      <<"o","v","e","r"," ","2","0">>,                                  \* over 20
      <<"2","0","+">>,                                                  \* 20+
      <<"U5927","U4E8E","2","0">>,
      <<"2","0","U5C81","U4EE5","U4E0A">> }

AgeMaxCues ==
    { <<"l","e","s","s"," ","t","h","a","n"," ","1","8">>,              \* less than 18
      <<"u","n","d","e","r"," ","1","8">>,                              \* under 18
      <<"U5C0F","U4E8E","1","8">>,
      <<"1","8","U5C81","U4EE5","U4E0B">> }

FemaleCues ==
    { <<"f","e","m","a","l","e">>,                                      \* female
      <<"g","i","r","l">>,                                              \* girl
      <<"U5973","U751F">>,
      <<"U5973","U6027">> }

MaleCues ==
    { <<"m","a","l","e">>,                                              \* male
      <<"b","o","y">>,                                                  \* boy
      <<"U7537","U751F">>,
      <<"U7537","U6027">> }

ComputerScienceCues ==
    { <<"c","o","m","p","u","t","e","r"," ","s","c","i","e","n","c","e">>,  \* computer science
      <<"c","s">>,                                                          \* cs
      <<"s","o","f","t","w","a","r","e"," ","e","n","g","i","n","e","e","r","i","n","g">>,
      <<"U8BA1","U7B97","U673A">>,
      <<"U8F6F","U4EF6","U5DE5","U7A0B">> }

FinanceCues ==
    { <<"f","i","n","a","n","c","e">>,                                  \* finance
      <<"b","u","s","i","n","e","s","s">>,                              \* business
      <<"U91D1","U878D">> }

ExploratoryCues ==
    { <<"a","b","o","u","t">>,                                          \* about
      <<"w","h","o"," ","i","s">>,                                      \* who is
      <<"U5173","U4E8E">>,
      <<"U8C01","U662F">> }

\* 'c1' in text or 'c2' in text or ...
AnyIn(cues, text) == \E cue \in cues : Contains(text, cue)

\* query_params as parse_query has filled it before its two checks
ParsedParams(natural_language_text) ==
    LET text == Lower(natural_language_text)
        present ==
            {k \in {"age_min", "age_max", "gender", "major"} :
                CASE k = "age_min" -> AnyIn(AgeMinCues, text)
                  [] k = "age_max" -> AnyIn(AgeMaxCues, text)
                  [] k = "gender"  -> AnyIn(FemaleCues, text) \/ AnyIn(MaleCues, text)
                  [] k = "major"   -> AnyIn(ComputerScienceCues, text)
                                        \/ AnyIn(FinanceCues, text)}
    IN  [k \in present |->
            CASE k = "age_min" -> 20
              [] k = "age_max" -> 18
              [] k = "gender"  -> IF AnyIn(FemaleCues, text) THEN "Female" ELSE "Male"
              [] k = "major"   -> IF AnyIn(ComputerScienceCues, text)
                                  THEN "Computer Science" ELSE "Finance"]

\* parse_query without its final check: only exploratory phrasing fails
parse_query_OnlyExploratoryFails(natural_language_text) ==
    LET text == Lower(natural_language_text)
        query_params == ParsedParams(natural_language_text)
    IN  IF DOMAIN query_params = {} /\ AnyIn(ExploratoryCues, text)
        THEN StudentError("LLM failed to extract valid filtering parameters from the natural language input. Please try a more specific query.")
        ELSE Return(PyDict(query_params))

parse_query(natural_language_text) ==
    LET text == Lower(natural_language_text)
        query_params == ParsedParams(natural_language_text)
    IN  IF DOMAIN query_params = {} /\ AnyIn(ExploratoryCues, text)
        THEN StudentError("LLM failed to extract valid filtering parameters from the natural language input. Please try a more specific query.")
        ELSE IF DOMAIN query_params = {}
        THEN StudentError("LLM Parsing Failed: No valid filtering conditions were recognized.")
        ELSE Return(PyDict(query_params))

---------------------------------------------------------------------------
\* StudentManager.query_by_natural_language: parsed is what
\* self._query_agent.parse_query(natural_language_text) returned or raised

\* the filters with age_min exclusive
FilterStudents_AgeMinExclusive(d, query_params) ==
    LET all == Values(d)
        by_major ==
            IF "major" \in DOMAIN query_params
            THEN SelectSeq(all, LAMBDA s : s.major = query_params["major"])
            ELSE all
        by_gender ==
            IF "gender" \in DOMAIN query_params
            THEN SelectSeq(by_major, LAMBDA s : s.gender = query_params["gender"])
            ELSE by_major
        by_age_min ==
            IF "age_min" \in DOMAIN query_params
            THEN SelectSeq(by_gender, LAMBDA s : s.age.v > query_params["age_min"])
            ELSE by_gender
        by_age_max ==
            IF "age_max" \in DOMAIN query_params
            THEN SelectSeq(by_age_min, LAMBDA s : s.age.v <= query_params["age_max"])
            ELSE by_age_min
    IN  IF "name_part" \in DOMAIN query_params
        THEN LET name_part == Lower(query_params["name_part"])
             IN  SelectSeq(by_age_max, LAMBDA s : Contains(Lower(s.name), name_part))
        ELSE by_age_max

\* results after the five filters (lines 68-82)
FilterStudents(d, query_params) ==
    LET all == Values(d)
        by_major ==
            IF "major" \in DOMAIN query_params
            THEN SelectSeq(all, LAMBDA s : s.major = query_params["major"])
            ELSE all
        by_gender ==
            IF "gender" \in DOMAIN query_params
            THEN SelectSeq(by_major, LAMBDA s : s.gender = query_params["gender"])
            ELSE by_major
        by_age_min ==
            IF "age_min" \in DOMAIN query_params
            THEN SelectSeq(by_gender, LAMBDA s : s.age.v >= query_params["age_min"])
            ELSE by_gender
        by_age_max ==
            IF "age_max" \in DOMAIN query_params
            THEN SelectSeq(by_age_min, LAMBDA s : s.age.v <= query_params["age_max"])
            ELSE by_age_min
    IN  IF "name_part" \in DOMAIN query_params
        THEN LET name_part == Lower(query_params["name_part"])
             IN  SelectSeq(by_age_max, LAMBDA s : Contains(Lower(s.name), name_part))
        ELSE by_age_max

query_by_natural_language(d, parsed) ==
    IF parsed.exc # "None"
    THEN parsed
    ELSE Return(PyList(FilterStudents(d, parsed.value.map)))

---------------------------------------------------------------------------
\* StudentStorage (student_storage.py).  The data file is absent, holds a
\* complete pickle of a dict, or holds what an interrupted write left of one.

NoFile == [kind |-> "absent"]

TruncatedFile == [kind |-> "truncated"]

\* pickle.dump(students, f): the items in order, each Student by its fields
Dumps(d) ==
    [i \in 1..Len(d) |->
        <<d[i].k, d[i].v.sid, d[i].v.name, d[i].v.age, d[i].v.gender, d[i].v.major>>]

\* pickle.load(f) of a complete pickle
Loads(bytes) ==
    [i \in 1..Len(bytes) |->
        [k |-> bytes[i][1],
         v |-> Student(bytes[i][2], bytes[i][3], bytes[i][4], bytes[i][5], bytes[i][6])]]

PickleFile(d) == [kind |-> "pickle", bytes |-> Dumps(d)]

\* What the operating system does to a read of the file
LoadIO == {"ok", "read_fails"}

\* What the operating system does to a write of the file: open() raises,
\* or open() has truncated the file and pickle.dump raises
SaveIO == {"ok", "open_fails", "dump_fails"}

\* load_data without the os.path.exists test and the try/except around the
\* read: what open() and pickle.load raise reaches the caller
load_data_Unguarded(f, io) ==
    IF f.kind = "absent"
    THEN Raise("FileNotFoundError", "No such file or directory", <<>>)
    ELSE IF io # "ok"
    THEN Raise("OSError", "read failed", <<>>)
    ELSE IF f.kind # "pickle"
    THEN Raise("EOFError", "Ran out of input", <<>>)
    ELSE Return(PyDict(Loads(f.bytes)))

\* load_data: the dict it returns (students stays {} when the file is
\* missing or the read or pickle.load raises)
load_data(f, io) ==
    IF f.kind # "absent"
    THEN IF io = "ok" /\ f.kind = "pickle"
         THEN Return(PyDict(Loads(f.bytes)))
         ELSE Return(PyDict(<<>>))
    ELSE Return(PyDict(<<>>))

\* save_data that opens the file for appending ("ab"): a file that already
\* holds a pickle keeps it in front, and pickle.load reads the first one
save_data_Append(d, f, io) ==
    CASE io = "ok"         -> [ret |-> Return(PyNone),
                               file |-> IF f.kind = "pickle" THEN f ELSE PickleFile(d)]
      [] io = "open_fails" -> [ret |-> Return(PyNone), file |-> f]
      [] io = "dump_fails" -> [ret |-> Return(PyNone), file |-> f]

\* save_data: what the call returns or raises, and the file it leaves
save_data(d, f, io) ==
    CASE io = "ok"         -> [ret |-> Return(PyNone), file |-> PickleFile(d)]
      [] io = "open_fails" -> [ret |-> Return(PyNone), file |-> f]
      [] io = "dump_fails" -> [ret |-> Return(PyNone), file |-> TruncatedFile]

\* StudentManager.save_and_exit
save_and_exit(d, f, io) == save_data(d, f, io)

\* StudentManager.__init__: self._students = self._storage.load_data().  An
\* exception from load_data would leave no manager, hence no dict.
__init__(f, io) ==
    LET loaded == load_data(f, io)
    IN  IF loaded.exc # "None"
        THEN [ret |-> loaded, students |-> <<>>]
        ELSE [ret |-> Return(PyNone), students |-> loaded.value.map]

---------------------------------------------------------------------------
\* The query agent injected into the manager: the repository's LLMQueryAgent,
\* or another implementation of the IQueryAgent port, which may answer a text
\* with any non-empty parameter mapping.

PortMappingKeys == {"major", "gender", "age_min", "age_max", "name_part"}

PortMappingValues ==
    [major     |-> {"Finance", "Computer Science"},
     gender    |-> {"Male", "Female"},
     age_min   |-> {20},
     age_max   |-> {18},
     name_part |-> {<<"A","N">>, <<"b">>}]

PortMappings ==
    { [k \in K |-> full[k]] :
        full \in [major : PortMappingValues.major, gender : PortMappingValues.gender,
                  age_min : PortMappingValues.age_min, age_max : PortMappingValues.age_max,
                  name_part : PortMappingValues.name_part],
        K \in (SUBSET PortMappingKeys) \ {{}} }

\* The texts the callers put to the manager
QueryTexts ==
    { <<"a","l","l"," ","f","e","m","a","l","e","s"," ","o","v","e","r"," ","2","0">>,
      <<"w","h","o"," ","i","s"," ","t","a","l","l">>,
      <<"M","a","l","e"," ","s","t","u","d","e","n","t","s"," ","u","n","d","e","r"," ","1","8">>,
      <<"p","h","y","s","i","c","s">>,
      <<"h","e","l","l","o">>,
      <<"f","i","n","a","n","c","e"," ","g","i","r","l","s"," ","2","0","+">>,
      <<"U5973","U751F">>,
      <<"a","b","o","u","t"," ","b","u","s","i","n","e","s","s">>,
      <<"c","s"," ","b","o","y","s"," ","o","v","e","r"," ","2","0"," ","u","n","d","e","r"," ","1","8">> }

\* LLMQueryAgent.parse_query on each of these texts
LLMQueryAgentAnswers == [text \in QueryTexts |-> parse_query(text)]

\* self._query_agent.parse_query(text): the possible outcomes
AgentOutcomes(agent, text) ==
    IF agent = "LLMQueryAgent"
    THEN {LLMQueryAgentAnswers[text]}
    ELSE {Return(PyDict(m)) : m \in PortMappings}

---------------------------------------------------------------------------
\* The calls on the manager.  Each action is one call of a public method: it
\* records the call, what it returned or raised, and the dict it left.  The
\* caller makes one call at a time: it takes the result (Prompt) before it
\* calls again.

NoCall == [op |-> "none"]

\* The caller's loop: the result is shown and the next choice awaited
Prompt ==
    /\ call # NoCall
    /\ call' = NoCall
    /\ ret' = Return(PyNone)
    /\ UNCHANGED <<students, query_agent, file>>

\* The program is started again (main(), cli_interface.py:158-168): from the
\* prompt of a run that is then ended, or after option 6, which saves and
\* calls sys.exit (cli_interface.py:147-155)
NewManager(io) ==
    /\ call = NoCall \/ call.op = "save_and_exit"
    /\ \E out \in {__init__(file, io)} :
        /\ students' = out.students
        /\ call' = [op |-> "__init__", io |-> io]
        /\ ret' = out.ret
        /\ UNCHANGED <<query_agent, file>>

AddStudent(student) ==
    /\ call = NoCall
    /\ \E out \in {add_student(students, student)} :
        /\ students' = out.students
        /\ call' = [op |-> "add_student", student |-> student]
        /\ ret' = out.ret
        /\ UNCHANGED <<query_agent, file>>

QueryStudentById(sid) ==
    /\ call = NoCall
    /\ call' = [op |-> "query_student_by_id", sid |-> sid]
    /\ ret' = query_student_by_id(students, sid)
    /\ UNCHANGED <<students, query_agent, file>>

QueryStudentsByName(name_part) ==
    /\ call = NoCall
    /\ call' = [op |-> "query_students_by_name", name_part |-> name_part]
    /\ ret' = query_students_by_name(students, name_part)
    /\ UNCHANGED <<students, query_agent, file>>

QueryByNaturalLanguage(text, parsed) ==
    /\ call = NoCall
    /\ parsed \in AgentOutcomes(query_agent, text)
    /\ call' = [op |-> "query_by_natural_language", text |-> text, parsed |-> parsed]
    /\ ret' = query_by_natural_language(students, parsed)
    /\ UNCHANGED <<students, query_agent, file>>

ModifyStudent(sid, updates) ==
    /\ call = NoCall
    /\ \E out \in {modify_student(students, sid, updates)} :
        /\ students' = out.students
        /\ call' = [op |-> "modify_student", sid |-> sid, updates |-> updates]
        /\ ret' = out.ret
        /\ UNCHANGED <<query_agent, file>>

DeleteStudent(sid) ==
    /\ call = NoCall
    /\ \E out \in {delete_student(students, sid)} :
        /\ students' = out.students
        /\ call' = [op |-> "delete_student", sid |-> sid]
        /\ ret' = out.ret
        /\ UNCHANGED <<query_agent, file>>

GetAllStudents ==
    /\ call = NoCall
    /\ call' = [op |-> "get_all_students"]
    /\ ret' = get_all_students(students)
    /\ UNCHANGED <<students, query_agent, file>>

SaveAndExit(io) ==
    /\ call = NoCall
    /\ \E out \in {save_and_exit(students, file, io)} :
        /\ file' = out.file
        /\ call' = [op |-> "save_and_exit", io |-> io]
        /\ ret' = out.ret
        /\ UNCHANGED <<students, query_agent>>

---------------------------------------------------------------------------
\* Inputs of the calls

\* How many well-formed ids the callers use
NumIds == 2

ValidSids == { <<"S", DigitChars[i + 1]>> : i \in 1..NumIds }

\* with the empty id and an id that is not alphanumeric
SidInputs == ValidSids \cup { <<>>, <<"S","-","1">> }

Ann == <<"A","n","n">>

Bob == <<"B","o","b">>

\* add_student: every combination of a good and a bad value of each field
AddInputs ==
    { Student(sid, name, age, gender, major) :
        sid \in SidInputs,
        name \in {<<>>, Ann},
        age \in {PyInt(0), PyInt(1), PyInt(151), PyFloat(20)},
        gender \in {"Female", "male"},
        major \in {"", "Finance"} }

\* modify_student: any subset of the keys, "sid" (which the method ignores)
\* among them, with good and bad values
UpdateInputs ==
    { [k \in K |-> full[k]] :
        full \in [name : {<<>>, Bob},
                  age : {PyInt(0), PyInt(150), PyFloat(20)},
                  gender : {"male"},
                  major : {""},
                  sid : {<<"S","9">>}],
        K \in SUBSET {"name", "age", "gender", "major", "sid"} }

NamePartInputs == { <<>>, <<"a","N">>, <<"b">> }

\* The texts put to the injected agent: every text to the LLMQueryAgent, one
\* to another agent (whose answer does not depend on the text)
TextsFor(agent) ==
    IF agent = "LLMQueryAgent" THEN QueryTexts
    ELSE { <<"a","l","l"," ","f","e","m","a","l","e","s"," ","o","v","e","r"," ","2","0">> }

\* Records that differ in every field a filter reads
QueryStudents ==
    { Student(sid, name, age, gender, major) :
        sid \in { <<"S","1">>, <<"S","2">> },
        name \in {Ann, Bob},
        age \in {PyInt(18), PyInt(20)},
        gender \in {"Male", "Female"},
        major \in {"Finance", "Computer Science"} }

StorageStudents ==
    { Student(<<"S","1">>, Ann, PyInt(20), "Female", "Finance"),
      Student(<<"S","2">>, Bob, PyInt(18), "Male", "Computer Science"),
      Student(<<"S","2">>, <<>>, PyInt(18), "Male", "Computer Science") }

StorageUpdates ==
    { [age |-> PyInt(150)], [age |-> PyInt(151)],
      [sid |-> <<"S","9">>, major |-> "Finance"] }

StorageTexts ==
    { <<"a","l","l"," ","f","e","m","a","l","e","s"," ","o","v","e","r"," ","2","0">>,
      <<"h","e","l","l","o">> }

\* The data files a start may find: none, one an earlier run saved, one an
\* interrupted save left
InitFiles ==
    { NoFile,
      PickleFile(<<[k |-> <<"S","1">>,
                    v |-> Student(<<"S","1">>, Ann, PyInt(20), "Female", "Finance")]>>),
      TruncatedFile }

---------------------------------------------------------------------------
\* Specifications

\* StudentManager(storage, query_agent) with the given agent on the given disk
Construct(agent, f, io) ==
    /\ query_agent = agent
    /\ file = f
    /\ students = __init__(f, io).students
    /\ call = [op |-> "__init__", io |-> io]
    /\ ret = __init__(f, io).ret

\* A first start (no data file) with the LLMQueryAgent, as main() builds it
Init == Construct("LLMQueryAgent", NoFile, "ok")

\* The manager's operations on the dict
Next ==
    \/ \E student \in AddInputs : AddStudent(student)
    \/ \E sid \in SidInputs : QueryStudentById(sid)
    \/ \E name_part \in NamePartInputs : QueryStudentsByName(name_part)
    \/ \E text \in TextsFor(query_agent) :
          \E parsed \in AgentOutcomes(query_agent, text) :
              QueryByNaturalLanguage(text, parsed)
    \/ \E sid \in SidInputs, updates \in UpdateInputs : ModifyStudent(sid, updates)
    \/ \E sid \in SidInputs : DeleteStudent(sid)
    \/ GetAllStudents
    \/ Prompt

Spec == Init /\ [][Next]_vars

\* Queries over stores of varied records, with either agent
InitQuery ==
    \E agent \in {"LLMQueryAgent", "IQueryAgent"} : Construct(agent, NoFile, "ok")

NextQuery ==
    \/ \E student \in QueryStudents : AddStudent(student)
    \/ \E text \in TextsFor(query_agent) :
          \E parsed \in AgentOutcomes(query_agent, text) :
              QueryByNaturalLanguage(text, parsed)
    \/ Prompt

SpecQuery == InitQuery /\ [][NextQuery]_vars

\* Saving, and starting again from what is on disk
InitStorage ==
    \E f \in InitFiles, io \in LoadIO : Construct("LLMQueryAgent", f, io)

NextStorage ==
    \/ \E student \in StorageStudents : AddStudent(student)
    \/ \E sid \in ValidSids, updates \in StorageUpdates : ModifyStudent(sid, updates)
    \/ \E sid \in ValidSids : DeleteStudent(sid)
    \/ \E sid \in ValidSids : QueryStudentById(sid)
    \/ \E text \in StorageTexts :
          \E parsed \in AgentOutcomes(query_agent, text) :
              QueryByNaturalLanguage(text, parsed)
    \/ GetAllStudents
    \/ \E io \in SaveIO : SaveAndExit(io)
    \/ \E io \in LoadIO : NewManager(io)
    \/ Prompt

SpecStorage == InitStorage /\ [][NextStorage]_vars

---------------------------------------------------------------------------
\* The validation rules as the specification numbers them, and the record an
\* update asks for

Rule1(r) == r.sid # <<>> /\ \A i \in 1..Len(r.sid) : r.sid[i] \in AlnumChars

Rule2(r) == r.name # <<>>

Rule3(r) == r.age.type = "int" /\ r.age.v \in 1..150

Rule4(r) == r.gender \in {"Male", "Female"}

Rule5(r) == r.major # ""

\* The lowest-numbered rule r violates; 0 when it satisfies all five
FirstViolatedRule(r) ==
    CASE ~Rule1(r) -> 1
      [] Rule1(r) /\ ~Rule2(r) -> 2
      [] Rule1(r) /\ Rule2(r) /\ ~Rule3(r) -> 3
      [] Rule1(r) /\ Rule2(r) /\ Rule3(r) /\ ~Rule4(r) -> 4
      [] Rule1(r) /\ Rule2(r) /\ Rule3(r) /\ Rule4(r) /\ ~Rule5(r) -> 5
      [] OTHER -> 0

\* The message that reports each rule
RuleMessage ==
    << "ID must be non-empty alphanumeric.",
       "Name cannot be empty.",
       "Age must be an integer between 1-150.",
       "Gender must be 'Male' or 'Female'.",
       "Major cannot be empty." >>

\* old with the requested fields replaced; the id is never replaced
Merged(old, updates) ==
    [f \in {"sid", "name", "age", "gender", "major"} |->
        IF f # "sid" /\ f \in DOMAIN updates THEN updates[f] ELSE old[f]]

\* Every entry of d other than the one under sid is in e, unchanged
OthersUnchanged(d, e, sid) ==
    \A k \in Keys(d) \ {sid} : HasKey(e, k) /\ Item(e, k) = Item(d, k)

---------------------------------------------------------------------------
\* C1: add(R) of a record R that satisfies rules 1-5 and whose id is not in
\* the store succeeds; getById(R.id) on the store it leaves returns a record
\* equal to R in all five fields; the store gains exactly that entry and no
\* other entry changes.
C1_AddThenGetById ==
    [][ ( /\ call'.op = "add_student"
          /\ FirstViolatedRule(call'.student) = 0
          /\ ~HasKey(students, call'.student.sid) )
        => ( /\ ret'.exc = "None"
             /\ query_student_by_id(students', call'.student.sid)
                    = Return(PyStudent(call'.student))
             /\ Keys(students') = Keys(students) \cup {call'.student.sid}
             /\ Len(students') = Len(students) + 1
             /\ OthersUnchanged(students, students', call'.student.sid) ) ]_vars

\* A valid record was added to a store that already held another one
C1_Witness ==
    /\ call.op = "add_student"
    /\ ret.exc = "None"
    /\ FirstViolatedRule(call.student) = 0
    /\ Len(students) = 2

\* C2: add(R) with an id already in the store fails with AlreadyExists and
\* leaves the store unchanged, also when other fields of R violate the rules.
C2_AddDuplicate ==
    [][ ( /\ call'.op = "add_student"
          /\ HasKey(students, call'.student.sid) )
        => ( /\ ret' = StudentAlreadyExistsError(call'.student.sid)
             /\ students' = students ) ]_vars

\* A duplicate id was refused although the record also violated a rule
C2_Witness ==
    /\ call.op = "add_student"
    /\ ret.exc = "StudentAlreadyExistsError"
    /\ FirstViolatedRule(call.student) # 0
    /\ HasKey(students, call.student.sid)

\* What a failed validation of record r must have returned and left
ReportsFirstViolation(r, result, before, after) ==
    /\ result.exc = "StudentError"
    /\ result.msg = RuleMessage[FirstViolatedRule(r)]
    /\ after = before

\* C3 as stated: on the add path and on the update path, a candidate record
\* that violates a rule makes the operation fail with a Validation error that
\* reports the lowest-numbered violated rule, and the store is unchanged.
C3_AsStated ==
    [][ /\ ( /\ call'.op = "add_student"
             /\ FirstViolatedRule(call'.student) # 0 )
           => ReportsFirstViolation(call'.student, ret', students, students')
        /\ ( /\ call'.op = "modify_student"
             /\ HasKey(students, call'.sid)
             /\ FirstViolatedRule(Merged(Item(students, call'.sid), call'.updates)) # 0 )
           => ReportsFirstViolation(Merged(Item(students, call'.sid), call'.updates),
                                    ret', students, students') ]_vars

\* C3 (amended): the same, on the add path for an id that is not yet in the
\* store (a duplicate id fails with AlreadyExists before any validation) and
\* on the update path for an id that is in the store.
C3_FirstViolatedRule ==
    [][ /\ ( /\ call'.op = "add_student"
             /\ ~HasKey(students, call'.student.sid)
             /\ FirstViolatedRule(call'.student) # 0 )
           => ReportsFirstViolation(call'.student, ret', students, students')
        /\ ( /\ call'.op = "modify_student"
             /\ HasKey(students, call'.sid)
             /\ FirstViolatedRule(Merged(Item(students, call'.sid), call'.updates)) # 0 )
           => ReportsFirstViolation(Merged(Item(students, call'.sid), call'.updates),
                                    ret', students, students') ]_vars

\* An update whose merged record violates rule 3 and rule 5 reported rule 3
C3_Witness ==
    /\ call.op = "modify_student"
    /\ HasKey(students, call.sid)
    /\ LET candidate == Merged(Item(students, call.sid), call.updates)
       IN  /\ ~Rule3(candidate)
           /\ ~Rule5(candidate)
           /\ FirstViolatedRule(candidate) = 3
    /\ ret.msg = RuleMessage[3]

\* C4: after update of an id in the store returns, with success or with a
\* Validation error, the record under that id is exactly the old record or
\* exactly the fully merged one (the merged one on success, the old one on
\* failure), its id is the same, and every other entry is unchanged.
C4_UpdateAtomic ==
    [][ ( /\ call'.op = "modify_student"
          /\ HasKey(students, call'.sid) )
        => LET old == Item(students, call'.sid)
               new == Merged(old, call'.updates)
           IN  /\ KeySeq(students') = KeySeq(students)
               /\ Item(students', call'.sid) \in {old, new}
               /\ ret'.exc = "None" => Item(students', call'.sid) = new
               /\ ret'.exc # "None" => Item(students', call'.sid) = old
               /\ Item(students', call'.sid).sid = old.sid
               /\ OthersUnchanged(students, students', call'.sid) ]_vars

\* An update of two fields (with a "sid" key as well) went through, beside
\* another record
C4_Witness ==
    /\ call.op = "modify_student"
    /\ ret.exc = "None"
    /\ {"name", "age", "sid"} \subseteq DOMAIN call.updates
    /\ Len(students) = 2
    /\ Item(students, call.sid).name = call.updates["name"]
    /\ Item(students, call.sid).sid = call.sid

\* C5: update of an id that is not in the store fails with NotFound, whatever
\* the field values, and leaves the store unchanged: it creates no record.
C5_UpdateAbsent ==
    [][ ( /\ call'.op = "modify_student"
          /\ ~HasKey(students, call'.sid) )
        => ( /\ ret' = StudentNotFoundError(call'.sid)
             /\ students' = students ) ]_vars

\* An update with a valid value, for a well-formed id the store lacks
C5_Witness ==
    /\ call.op = "modify_student"
    /\ ret.exc = "StudentNotFoundError"
    /\ call.sid \in ValidSids
    /\ call.updates = [name |-> Bob]
    /\ Len(students) = 1

\* C6: delete of an absent id fails with NotFound and leaves the store
\* unchanged; delete of a present id removes exactly that entry, so that
\* getById of it then fails with NotFound, and no other entry changes.
C6_Delete ==
    [][ call'.op = "delete_student"
        => IF ~HasKey(students, call'.sid)
           THEN /\ ret' = StudentNotFoundError(call'.sid)
                /\ students' = students
           ELSE /\ ret'.exc = "None"
                /\ query_student_by_id(students', call'.sid)
                       = StudentNotFoundError(call'.sid)
                /\ Keys(students') = Keys(students) \ {call'.sid}
                /\ Len(students') = Len(students) - 1
                /\ OthersUnchanged(students, students', call'.sid) ]_vars

\* One of two entries was deleted and the other one is left
C6_Witness ==
    /\ call.op = "delete_student"
    /\ ret.exc = "None"
    /\ Len(students) = 1
    /\ students[1].k # call.sid

---------------------------------------------------------------------------
\* The query filters as the specification states them

\* Record s passes every filter whose key is in the mapping m
SatisfiesAll(s, m) ==
    /\ "major" \in DOMAIN m => s.major = m["major"]
    /\ "gender" \in DOMAIN m => s.gender = m["gender"]
    /\ "age_min" \in DOMAIN m => s.age.v >= m["age_min"]
    /\ "age_max" \in DOMAIN m => s.age.v <= m["age_max"]
    /\ "name_part" \in DOMAIN m => Contains(Lower(s.name), Lower(m["name_part"]))

\* The records of d that pass, in the order of d
Matching(d, m) == SelectSeq(Values(d), LAMBDA s : SatisfiesAll(s, m))

\* The cues of a filter parameter
ParameterCues ==
    AgeMinCues \cup AgeMaxCues \cup FemaleCues \cup MaleCues
        \cup ComputerScienceCues \cup FinanceCues

\* The text holds no cue of any filter parameter
NothingToExtract(text) == ~AnyIn(ParameterCues, Lower(text))

\* A result that carries both the records and the mapping used for them
WithParameters(records, m) ==
    [type |-> "dict",
     map |-> [students |-> PyList(records), query_params |-> PyDict(m)]]

AllFemalesOver20 ==
    <<"a","l","l"," ","f","e","m","a","l","e","s"," ","o","v","e","r"," ","2","0">>

\* C7: for every store and every parameter mapping the agent returns,
\* queryByNaturalLanguage returns exactly the records that pass all filters
\* whose key is in the mapping (an absent key restricts nothing, age_min and
\* age_max are inclusive, name_part ignores case), and the store is unchanged.
C7_QueryFilters ==
    [][ ( /\ call'.op = "query_by_natural_language"
          /\ call'.parsed.exc = "None" )
        => ( /\ ret' = Return(PyList(Matching(students, call'.parsed.value.map)))
             /\ students' = students ) ]_vars

\* A query with age_min and name_part kept a record of exactly age_min and
\* dropped the other record of the store
C7_Witness ==
    /\ call.op = "query_by_natural_language"
    /\ call.parsed.exc = "None"
    /\ {"age_min", "name_part"} \subseteq DOMAIN call.parsed.value.map
    /\ Len(students) = 2
    /\ ret.exc = "None"
    /\ Len(ret.value.items) = 1
    /\ ret.value.items[1].age.v = call.parsed.value.map["age_min"]

\* C8: a successful queryByNaturalLanguage(text) returns the narrowed records
\* together with the parameter mapping the agent produced for text; for
\* "all females over 20" that mapping is {gender: Female, age_min: 20}.
C8_ReturnsRecordsAndMapping ==
    [][ ( /\ call'.op = "query_by_natural_language"
          /\ call'.parsed.exc = "None" )
        => ( /\ ret'.exc = "None"
             /\ ret'.value = WithParameters(Matching(students, call'.parsed.value.map),
                                            call'.parsed.value.map)
             /\ (query_agent = "LLMQueryAgent" /\ call'.text = AllFemalesOver20)
                  => call'.parsed.value.map = [gender |-> "Female", age_min |-> 20] ) ]_vars

\* What every failed query of the LLMQueryAgent manager shares: it fails
\* exactly when the text holds nothing to extract, and the store is unchanged
QueryFailsIffNothingExtracted ==
    /\ ret'.exc # "None" <=> NothingToExtract(call'.text)
    /\ students' = students

C10_SaveFailureReported ==
    [][ ( /\ call'.op = "save_and_exit"
          /\ call'.io # "ok" )
        => ( /\ ret'.exc # "None"
             /\ students' = students ) ]_vars

---------------------------------------------------------------------------
\* Persistence

\* The mapping a load() obtains from the data file when the read itself works
Persisted(f) == load_data(f, "ok").value.map

\* C11: a save that fails does not corrupt the data file: after it, load()
\* still returns the mapping the file held before the failed save (the
\* mapping of the last successful save, or none), not an empty or partial one.
C11_FailedSaveKeepsFile ==
    [][ ( /\ call'.op = "save_and_exit"
          /\ call'.io # "ok" )
        => ( /\ load_data(file', "ok") = load_data(file, "ok")
             /\ (file.kind = "absent" => Persisted(file') = <<>>) ) ]_vars

\* C12: round trip.  A successful save of the store M followed by load()
\* yields a mapping equal to M (same ids, in each record the same five field
\* values), so a manager constructed right after a successful save starts
\* with a store equal to the one that was saved.
C12_RoundTrip ==
    [][ /\ ( ( /\ call'.op = "save_and_exit"
                /\ call'.io = "ok" )
             => load_data(file', "ok") = Return(PyDict(students)) )
        /\ ( ( /\ call.op = "save_and_exit"
                /\ call.io = "ok"
                /\ call'.op = "__init__"
                /\ call'.io = "ok" )
             => ( /\ ret'.exc = "None"
                  /\ students' = students ) ) ]_vars

\* A manager started from the file that a save of two records, one of them
\* modified since it was added, has written
C12_Witness ==
    /\ call.op = "__init__"
    /\ call.io = "ok"
    /\ Len(students) = 2
    /\ \E i \in 1..Len(students) : students[i].v.age = PyInt(150)
    /\ file = PickleFile(students)

\* C13: load() never raises.  With no data file it returns an empty mapping,
\* and with a file that cannot be read or unpickled it returns an empty
\* mapping too, so constructing the manager always completes, and after a
\* missing or corrupt load the manager starts with zero records.
C13_LoadNeverRaises ==
    /\ \A f \in InitFiles \cup {file}, io \in LoadIO :
           /\ load_data(f, io).exc = "None"
           /\ (f.kind # "pickle" \/ io # "ok") => load_data(f, io) = Return(PyDict(<<>>))
    /\ call.op = "__init__" =>
           /\ ret.exc = "None"
           /\ (file.kind # "pickle" \/ call.io # "ok") => students = <<>>

\* A manager started while the file of two saved records cannot be read
C13_Witness ==
    /\ call.op = "__init__"
    /\ call.io = "read_fails"
    /\ file.kind = "pickle"
    /\ Len(file.bytes) = 2
    /\ students = <<>>
    /\ ret.exc = "None"

\* C14: store invariant.  Starting from a loaded mapping whose keys are the
\* ids of their values, after any sequence of add, update, delete, query and
\* save calls, failed ones included, every key of the store is the id of its
\* value, and no two records of the store have the same id.
C14_KeyIsId ==
    /\ \A i \in 1..Len(students) : students[i].k = students[i].v.sid
    /\ \A i, j \in 1..Len(students) :
           students[i].v.sid = students[j].v.sid => i = j

\* Two records in the store, right after an update whose arguments carried
\* an id other than the record's
C14_Witness ==
    /\ call.op = "modify_student"
    /\ "sid" \in DOMAIN call.updates
    /\ call.updates["sid"] # call.sid
    /\ ret.exc = "None"
    /\ Len(students) = 2

\* C15: the data file is written only by saveAll().  Every other call leaves
\* the persisted mapping unchanged; a successful save makes it the store of
\* that moment and anything else keeps it, so that it is always the store as
\* of the most recent successful save (or what was there at the start); and
\* a restarted manager loads exactly that, without the later mutations.
C15_OnlySaveWrites ==
    [][ /\ ( call'.op # "save_and_exit" => Persisted(file') = Persisted(file) )
        /\ ( call'.op = "save_and_exit" =>
                 Persisted(file') = IF call'.io = "ok" THEN students
                                    ELSE Persisted(file) )
        /\ ( ( /\ call'.op = "__init__"
                /\ call'.io = "ok" )
             => students' = Persisted(file) ) ]_vars

===========================================================================
